---- MODULE Spec2Model ----
(***************************************************************************)
(* Model of src/solver.rs: the knowledge grid (UncertainGrid with its      *)
(* guarded setter set_safe) and the three deduction rules that             *)
(* solve_as_much_as_you_can applies to an observation set.                 *)
(*                                                                         *)
(* Three specifications share the variables:                               *)
(*   SpecGrid   arbitrary sequences of set_safe calls on a fresh grid;     *)
(*   Spec       one run of solve_as_much_as_you_can on an observation set; *)
(*   SpecRules  the letter pass and the reflection pass applied to a fresh *)
(*              grid in either order.                                      *)
(* A panic ends the run: once panic # "none" no action is enabled.         *)
(***************************************************************************)
EXTENDS Integers, Sequences, FiniteSets, TLC

\* Side length of the grid (crate::atom_grid::GRID_SIZE, 8 in the game).
GRID_SIZE == 3
\* Largest number of border positions whose observation is a letter,
\* Reflected or Absorbed; every other position carries an unused outcome.
MaxObs == 3
\* Largest number of set_safe calls in one run of SpecGrid.
MaxCalls == 3

\* enum GridKnowledge
Unknown == "Unknown"
Atom == "Atom"
Empty == "Empty"
GridKnowledge == {Unknown, Atom, Empty}

\* Outcomes of an observation.  LETTER stands for any of the letter markers
\* (obs.is_letter()); OTHER_OUTCOME for every outcome no rule looks at.
LASER_REFLECTED == "Reflected"
LASER_ABSORBED == "Absorbed"
LETTER == "Letter"
OTHER_OUTCOME == "Other"
Classified == {LETTER, LASER_REFLECTED, LASER_ABSORBED}

\* enum Direction: the travel direction of a laser.
Direction == {"Down", "Left", "Right", "Up"}

\* The in-grid coordinates, the index set of UncertainGrid.atoms.
Cells == (0 .. GRID_SIZE - 1) \X (0 .. GRID_SIZE - 1)
\* The coordinates set_safe is called with: the grid and a margin of one cell
\* around it, which holds every coordinate the rules compute.
Coords == (-1 .. GRID_SIZE) \X (-1 .. GRID_SIZE)
\* The border positions: a side (the direction of the laser entering there)
\* and a shift along that side.
Border == Direction \X (0 .. GRID_SIZE - 1)

\* I8Vec2::in_grid
in_grid(v) == v[1] >= 0 /\ v[1] < GRID_SIZE /\ v[2] >= 0 /\ v[2] < GRID_SIZE

\* I8Vec2 + I8Vec2 (no component leaves the i8 range within the bounds)
add(v, w) == <<v[1] + w[1], v[2] + w[2]>>

\* Direction::dxy: the unit step of a direction; y grows downwards, as draw
\* prints row y = 0 first, under the lasers pointing Down.
dxy(direction) ==
    CASE direction = "Down" -> <<0, 1>>
      [] direction = "Up" -> <<0, -1>>
      [] direction = "Right" -> <<1, 0>>
      [] direction = "Left" -> <<-1, 0>>

\* Direction::clockwise
clockwise(direction) ==
    CASE direction = "Up" -> "Right"
      [] direction = "Right" -> "Down"
      [] direction = "Down" -> "Left"
      [] direction = "Left" -> "Up"

\* Direction::counter_clockwise
counter_clockwise(direction) ==
    CASE direction = "Up" -> "Left"
      [] direction = "Left" -> "Down"
      [] direction = "Down" -> "Right"
      [] direction = "Right" -> "Up"

\* LaserTip::new(shift, direction): the tip sits on the border, one step
\* outside the grid, on the side the laser enters from.
LaserTip_new(shift, direction) ==
    [position |-> CASE direction = "Down" -> <<shift, -1>>
                    [] direction = "Up" -> <<shift, GRID_SIZE>>
                    [] direction = "Right" -> <<-1, shift>>
                    [] direction = "Left" -> <<GRID_SIZE, shift>>,
     direction |-> direction]

\* LaserTip::forward: the tip one step further along its direction.
forward(l) == [position |-> add(l.position, dxy(l.direction)),
               direction |-> l.direction]

\* Observations::iter: every border position once, side by side.  The order
\* is the implementation's; the passes below do not rely on it.
SideSeq == <<"Down", "Left", "Right", "Up">>
iter == [i \in 1 .. 4 * GRID_SIZE |->
            <<SideSeq[((i - 1) \div GRID_SIZE) + 1], (i - 1) % GRID_SIZE>>]

\* Outcome::is_letter
is_letter(obs) == obs = LETTER

\* UncertainGrid::default(): every cell Unknown.
default_grid == [c \in Cells |-> Unknown]

\* The result of a call: the grid it leaves and the panic it raised, if any.
Outcome(g, p) == [atoms |-> g, panic |-> p]

\* A plausible slip: the consistency check is dropped, the value overwritten.
set_safe_overwrite(g, v, knowledge) ==
    IF knowledge = Unknown
    THEN Outcome(g, "invalid_update")
    ELSE IF in_grid(v)
         THEN Outcome([g EXCEPT ![v] = knowledge], "none")
         ELSE Outcome(g, "none")

\* A plausible slip: the value is stored before the consistency check.
set_safe_store_first(g, v, knowledge) ==
    IF knowledge = Unknown
    THEN Outcome(g, "invalid_update")
    ELSE IF in_grid(v)
         THEN IF g[v] # Unknown /\ g[v] # knowledge
              THEN Outcome([g EXCEPT ![v] = knowledge], "inconsistent")
              ELSE Outcome([g EXCEPT ![v] = knowledge], "none")
         ELSE Outcome(g, "none")

\* A plausible slip: no in_grid test, the index is reduced into the array.
set_safe_wrapped(g, v, knowledge) ==
    LET w == <<v[1] % GRID_SIZE, v[2] % GRID_SIZE>> IN
    IF knowledge = Unknown
    THEN Outcome(g, "invalid_update")
    ELSE IF g[w] # Unknown /\ g[w] # knowledge
         THEN Outcome(g, "inconsistent")
         ELSE Outcome([g EXCEPT ![w] = knowledge], "none")

\* A plausible slip: any write to a known cell is rejected, also an equal one.
set_safe_write_once(g, v, knowledge) ==
    IF knowledge = Unknown
    THEN Outcome(g, "invalid_update")
    ELSE IF in_grid(v)
         THEN IF g[v] # Unknown
              THEN Outcome(g, "inconsistent")
              ELSE Outcome([g EXCEPT ![v] = knowledge], "none")
         ELSE Outcome(g, "none")

\* UncertainGrid::set_safe
set_safe(g, v, knowledge) ==
    IF knowledge = Unknown
    THEN Outcome(g, "invalid_update")
    ELSE IF in_grid(v)
         THEN LET previous_knowledge == g[v] IN
              IF previous_knowledge # Unknown /\ previous_knowledge # knowledge
              THEN Outcome(g, "inconsistent")
              ELSE Outcome([g EXCEPT ![v] = knowledge], "none")
         ELSE Outcome(g, "none")

\* A statement grid.set_safe(v, knowledge) that follows earlier statements of
\* the same function: it is not reached once one of them has panicked.
then_set_safe(r, v, knowledge) ==
    IF r.panic # "none" THEN r ELSE set_safe(r.atoms, v, knowledge)

\* A plausible slip: the neighbour at x - 1 is forgotten.
letter_iteration_three(g, direction, shift) ==
    LET l == LaserTip_new(shift, direction)
        center == forward(l).position
    IN then_set_safe(then_set_safe(then_set_safe(
           set_safe(g, center, Empty),
           add(center, <<0, 1>>), Empty),
           add(center, <<0, -1>>), Empty),
           add(center, <<1, 0>>), Empty)

\* A plausible slip: the rule is skipped when the forward cell is known.
letter_iteration_if_unknown(g, direction, shift) ==
    LET l == LaserTip_new(shift, direction)
        center == forward(l).position
    IN IF g[center] # Unknown
       THEN Outcome(g, "none")
       ELSE then_set_safe(then_set_safe(then_set_safe(then_set_safe(
                set_safe(g, center, Empty),
                add(center, <<0, 1>>), Empty),
                add(center, <<0, -1>>), Empty),
                add(center, <<1, 0>>), Empty),
                add(center, <<-1, 0>>), Empty)

\* letter_finds_four_empty_spaces, the body of its loop for one observation
\* that is a letter.
letter_iteration(g, direction, shift) ==
    LET l == LaserTip_new(shift, direction)
        center == forward(l).position
    IN then_set_safe(then_set_safe(then_set_safe(then_set_safe(
           set_safe(g, center, Empty),
           add(center, <<0, 1>>), Empty),
           add(center, <<0, -1>>), Empty),
           add(center, <<1, 0>>), Empty),
           add(center, <<-1, 0>>), Empty)

\* A plausible slip: forward() is forgotten, the border position is marked.
reflection_iteration_no_forward(g, direction, shift) ==
    LET l == LaserTip_new(shift, direction)
        center == l.position
    IN set_safe(g, center, Empty)

\* A plausible slip: the reflecting cell is taken for the atom.
reflection_iteration_atom(g, direction, shift) ==
    LET l == LaserTip_new(shift, direction)
        center == forward(l).position
    IN set_safe(g, center, Atom)

\* reflection_is_not_blocked, the body of its loop for one observation that
\* is LASER_REFLECTED.
reflection_iteration(g, direction, shift) ==
    LET l == LaserTip_new(shift, direction)
        center == forward(l).position
    IN set_safe(g, center, Empty)

\* A plausible slip: the test of the forward cell is dropped.
absorption_iteration_always(g, direction, shift) ==
    LET l == LaserTip_new(shift, direction)
        center == forward(l).position
    IN then_set_safe(
           set_safe(g, add(center, dxy(clockwise(direction))), Empty),
           add(center, dxy(counter_clockwise(direction))), Empty)

\* A plausible slip: only the clockwise neighbour is marked.
absorption_iteration_one_side(g, direction, shift) ==
    LET l == LaserTip_new(shift, direction)
        center == forward(l).position
    IN IF g[center] = Empty
       THEN set_safe(g, add(center, dxy(clockwise(direction))), Empty)
       ELSE Outcome(g, "none")

\* absorption_with_one_free_field, the body of its loop for one observation
\* that is LASER_ABSORBED.
absorption_iteration(g, direction, shift) ==
    LET l == LaserTip_new(shift, direction)
        center == forward(l).position
    IN IF g[center] = Empty
       THEN then_set_safe(
                set_safe(g, add(center, dxy(clockwise(direction))), Empty),
                add(center, dxy(counter_clockwise(direction))), Empty)
       ELSE Outcome(g, "none")

\* The three rules as whole functions: one pass over the observations in the
\* order given, from the outcome r of what ran before.
RECURSIVE letter_finds_four_empty_spaces(_, _, _)
letter_finds_four_empty_spaces(r, obs, order) ==
    IF order = <<>> \/ r.panic # "none"
    THEN r
    ELSE LET p == Head(order) IN
         letter_finds_four_empty_spaces(
             IF is_letter(obs[p]) THEN letter_iteration(r.atoms, p[1], p[2])
                                  ELSE r,
             obs, Tail(order))

RECURSIVE reflection_is_not_blocked(_, _, _)
reflection_is_not_blocked(r, obs, order) ==
    IF order = <<>> \/ r.panic # "none"
    THEN r
    ELSE LET p == Head(order) IN
         reflection_is_not_blocked(
             IF obs[p] = LASER_REFLECTED
             THEN reflection_iteration(r.atoms, p[1], p[2])
             ELSE r,
             obs, Tail(order))

RECURSIVE absorption_with_one_free_field(_, _, _)
absorption_with_one_free_field(r, obs, order) ==
    IF order = <<>> \/ r.panic # "none"
    THEN r
    ELSE LET p == Head(order) IN
         absorption_with_one_free_field(
             IF obs[p] = LASER_ABSORBED
             THEN absorption_iteration(r.atoms, p[1], p[2])
             ELSE r,
             obs, Tail(order))

\* solve_as_much_as_you_can as a function of the observations and the order
\* in which Observations::iter yields them.
solve_as_much_as_you_can(obs, order) ==
    absorption_with_one_free_field(
        reflection_is_not_blocked(
            letter_finds_four_empty_spaces(Outcome(default_grid, "none"),
                                           obs, order),
            obs, order),
        obs, order)

VARIABLES
    atoms,          \* UncertainGrid.atoms
    panic,          \* "none", or the panic that ended the run
    calls,          \* SpecGrid: number of set_safe calls made
    lastCall,       \* SpecGrid: the arguments of the latest set_safe call
    repeated,       \* SpecGrid: the latest call repeated the one before it
    observations,   \* the observation set: Border -> outcome
    pc,             \* the passes solve has still to run, the current one first
    visited,        \* border positions the current pass has iterated over
    absorbedOrder,  \* the Absorbed positions in the order pass 3 met them
    beforeAbsorption \* the grid as the absorption pass found it

vars == <<atoms, panic, calls, lastCall, repeated, observations, pc, visited,
          absorbedOrder, beforeAbsorption>>

NoCall == [v |-> <<-1, -1>>, knowledge |-> "none"]
NoObservations == [p \in Border |-> OTHER_OUTCOME]

solveVars == <<observations, pc, visited, absorbedOrder, beforeAbsorption>>

InitGrid ==
    /\ atoms = default_grid
    /\ panic = "none"
    /\ calls = 0
    /\ lastCall = NoCall
    /\ repeated = FALSE
    /\ observations = NoObservations
    /\ pc = <<>>
    /\ visited = {}
    /\ absorbedOrder = <<>>
    /\ beforeAbsorption = default_grid

\* One call grid.set_safe(v, knowledge) by a caller of the grid.
SetSafeCall ==
    /\ panic = "none"
    /\ calls < MaxCalls
    /\ \E v \in Coords, knowledge \in GridKnowledge :
          LET r == set_safe(atoms, v, knowledge) IN
          /\ atoms' = r.atoms
          /\ panic' = r.panic
          /\ lastCall' = [v |-> v, knowledge |-> knowledge]
          /\ repeated' = (lastCall = [v |-> v, knowledge |-> knowledge])
    /\ calls' = calls + 1
    /\ UNCHANGED solveVars

NextGrid == SetSafeCall

SpecGrid == InitGrid /\ [][NextGrid]_vars

\* --------------------------------------------------------------------------
\* Properties of the knowledge grid, under SpecGrid.

KnownCells == {c \in Cells : atoms[c] # Unknown}

\* C1: write-once.  In every step of a run that does not abort, a cell that
\* holds Atom or Empty keeps that value: it never goes from Atom to Empty,
\* from Empty to Atom, or back to Unknown.
C1_WriteOnce ==
    [][panic' = "none" =>
         \A c \in Cells : atoms[c] # Unknown => atoms'[c] = atoms[c]]_vars

\* A cell written by an earlier call holds Atom after a later call returned.
C1_Witness ==
    /\ calls >= 2
    /\ panic = "none"
    /\ lastCall.knowledge \in {Atom, Empty}
    /\ \E c \in Cells : atoms[c] = Atom /\ c # lastCall.v

\* C2: contradiction detection.  A call with Empty on a cell that holds Atom,
\* or with Atom on a cell that holds Empty, panics with the inconsistency and
\* stores nothing; a call with Atom or Empty on a cell that holds Unknown
\* stores exactly that value and does not panic.
C2_Contradiction ==
    [][(calls' # calls /\ in_grid(lastCall'.v)) =>
         LET v == lastCall'.v
             knowledge == lastCall'.knowledge
         IN /\ (atoms[v] = Atom /\ knowledge = Empty) =>
                  (panic' = "inconsistent" /\ atoms' = atoms)
            /\ (atoms[v] = Empty /\ knowledge = Atom) =>
                  (panic' = "inconsistent" /\ atoms' = atoms)
            /\ (atoms[v] = Unknown /\ knowledge \in {Atom, Empty}) =>
                  (panic' = "none" /\ atoms' = [atoms EXCEPT ![v] = knowledge])
      ]_vars

\* A call with Empty has panicked on a cell that holds Atom.
C2_Witness ==
    /\ panic = "inconsistent"
    /\ in_grid(lastCall.v)
    /\ lastCall.knowledge = Empty
    /\ atoms[lastCall.v] = Atom

\* C3: out-of-grid no-op.  A call with a coordinate outside the grid leaves
\* every cell as it was and does not raise the inconsistency panic.
C3_OutOfGrid ==
    [][(calls' # calls /\ ~in_grid(lastCall'.v)) =>
         (atoms' = atoms /\ panic' # "inconsistent")]_vars

\* A call with Empty for an out-of-grid coordinate returned, on a grid that
\* holds knowledge.
C3_Witness ==
    /\ calls >= 2
    /\ ~in_grid(lastCall.v)
    /\ lastCall.knowledge = Empty
    /\ panic = "none"
    /\ KnownCells # {}

\* C4: idempotence.  A call that repeats the arguments (Atom or Empty) of the
\* call before it, which returned, returns too and leaves the grid as the
\* first call left it.
C4_Idempotent ==
    [][(calls' # calls /\ calls > 0 /\ lastCall' = lastCall
          /\ lastCall.knowledge \in {Atom, Empty}) =>
         (panic' = "none" /\ atoms' = atoms)]_vars

\* The same in-grid update was applied twice in a row on a grid that held
\* other knowledge already.
C4_Witness ==
    /\ repeated
    /\ panic = "none"
    /\ in_grid(lastCall.v)
    /\ lastCall.knowledge = Empty
    /\ atoms[lastCall.v] = Empty
    /\ Cardinality(KnownCells) = 2

\* --------------------------------------------------------------------------
\* solve_as_much_as_you_can, one loop iteration at a time.  A pass visits
\* every observation once; the observations its rule does not apply to change
\* nothing, so a step is the next observation the rule applies to, in an
\* order left open.

\* The observation sets with at most MaxObs classified observations: obs is
\* one of them.
IsObservationSet(obs) ==
    \E S \in {T \in SUBSET Border : Cardinality(T) <= MaxObs} :
       \E f \in [S -> Classified] :
          obs = [p \in Border |-> IF p \in S THEN f[p] ELSE OTHER_OUTCOME]

Pending(rule) ==
    {p \in Border \ visited :
        CASE rule = "letter" -> is_letter(observations[p])
          [] rule = "reflection" -> observations[p] = LASER_REFLECTED
          [] rule = "absorption" -> observations[p] = LASER_ABSORBED}

Running(rule) == panic = "none" /\ pc # <<>> /\ Head(pc) = rule

Init ==
    /\ atoms = default_grid
    /\ panic = "none"
    /\ calls = 0
    /\ lastCall = NoCall
    /\ repeated = FALSE
    /\ IsObservationSet(observations)
    /\ pc = <<"letter", "reflection", "absorption">>
    /\ visited = {}
    /\ absorbedOrder = <<>>
    /\ beforeAbsorption = default_grid

LetterIteration ==
    /\ Running("letter")
    /\ \E p \in Pending("letter") :
          LET r == letter_iteration(atoms, p[1], p[2]) IN
          /\ atoms' = r.atoms
          /\ panic' = r.panic
          /\ visited' = visited \cup {p}
    /\ UNCHANGED <<calls, lastCall, repeated, observations, pc, absorbedOrder,
                   beforeAbsorption>>

ReflectionIteration ==
    /\ Running("reflection")
    /\ \E p \in Pending("reflection") :
          LET r == reflection_iteration(atoms, p[1], p[2]) IN
          /\ atoms' = r.atoms
          /\ panic' = r.panic
          /\ visited' = visited \cup {p}
    /\ UNCHANGED <<calls, lastCall, repeated, observations, pc, absorbedOrder,
                   beforeAbsorption>>

AbsorptionIteration ==
    /\ Running("absorption")
    /\ \E p \in Pending("absorption") :
          LET r == absorption_iteration(atoms, p[1], p[2]) IN
          /\ atoms' = r.atoms
          /\ panic' = r.panic
          /\ visited' = visited \cup {p}
          /\ absorbedOrder' = Append(absorbedOrder, p)
    /\ UNCHANGED <<calls, lastCall, repeated, observations, pc, beforeAbsorption>>

\* The loop of the current pass is exhausted: the rule returns and solve
\* calls the next one, or returns the grid.
EndPass ==
    /\ panic = "none"
    /\ pc # <<>>
    /\ Pending(Head(pc)) = {}
    /\ pc' = Tail(pc)
    /\ visited' = {}
    /\ beforeAbsorption' =
          IF Tail(pc) # <<>> /\ Head(Tail(pc)) = "absorption"
          THEN atoms ELSE beforeAbsorption
    /\ UNCHANGED <<atoms, panic, calls, lastCall, repeated, observations, absorbedOrder>>

Next == LetterIteration \/ ReflectionIteration \/ AbsorptionIteration \/ EndPass

Spec == Init /\ [][Next]_vars

\* The letter pass and the reflection pass alone, in either order.
InitRules ==
    /\ atoms = default_grid
    /\ panic = "none"
    /\ calls = 0
    /\ lastCall = NoCall
    /\ repeated = FALSE
    /\ IsObservationSet(observations)
    /\ pc \in {<<"letter", "reflection">>, <<"reflection", "letter">>}
    /\ visited = {}
    /\ absorbedOrder = <<>>
    /\ beforeAbsorption = default_grid

NextRules == LetterIteration \/ ReflectionIteration \/ EndPass

SpecRules == InitRules /\ [][NextRules]_vars

Returned == pc = <<>> /\ panic = "none"

\* --------------------------------------------------------------------------
\* Properties of the rules.

\* The forward cell of a border position: the first cell its laser enters.
ForwardCell(p) == forward(LaserTip_new(p[2], p[1])).position

\* The cells one step clockwise and counter-clockwise of the travel direction
\* from the forward cell.
Laterals(p) ==
    {add(ForwardCell(p), dxy(clockwise(p[1]))),
     add(ForwardCell(p), dxy(counter_clockwise(p[1])))}

ClassifiedPositions == {p \in Border : observations[p] # OTHER_OUTCOME}

EmptyCells == {c \in Cells : atoms[c] = Empty}

\* The grid in which exactly the in-grid cells of S are Empty.
OnlyEmpty(S) == [c \in Cells |-> IF c \in S THEN Empty ELSE Unknown]

\* C5: letter rule scenario.  When the only classified observation is a letter
\* at p, solve returns the grid in which the forward cell of p and its in-grid
\* neighbours at x+1, x-1, y+1, y-1 are Empty and every other cell Unknown.
C5_LetterScenario ==
    Cardinality(ClassifiedPositions) = 1 =>
       \A p \in ClassifiedPositions :
          is_letter(observations[p]) =>
             /\ panic = "none"
             /\ pc = <<>> =>
                   LET c == ForwardCell(p) IN
                   atoms = OnlyEmpty({c, <<c[1] + 1, c[2]>>, <<c[1] - 1, c[2]>>,
                                      <<c[1], c[2] + 1>>, <<c[1], c[2] - 1>>})

\* solve has returned for a single letter away from the corners: the forward
\* cell and three neighbours are Empty.
C5_Witness ==
    /\ Returned
    /\ \E p \in Border :
          ClassifiedPositions = {p} /\ is_letter(observations[p])
    /\ Cardinality(EmptyCells) = 4

\* C6: reflection rule scenario.  When the only classified observation is
\* Reflected at p, solve returns the grid in which the forward cell of p is
\* Empty and every other cell Unknown.
C6_ReflectionScenario ==
    Cardinality(ClassifiedPositions) = 1 =>
       \A p \in ClassifiedPositions :
          observations[p] = LASER_REFLECTED =>
             /\ panic = "none"
             /\ pc = <<>> => atoms = OnlyEmpty({ForwardCell(p)})

\* solve has returned for a single Reflected observation.
C6_Witness ==
    /\ Returned
    /\ \E p \in Border :
          /\ ClassifiedPositions = {p}
          /\ observations[p] = LASER_REFLECTED
          /\ atoms[ForwardCell(p)] = Empty

\* C7: absorption dependency.  An iteration of the absorption pass for an
\* Absorbed observation whose forward cell is Unknown changes nothing; one
\* whose forward cell the letter or reflection pass marked Empty marks the
\* in-grid ones of its two lateral cells Empty and changes no other cell.
C7_AbsorptionDependency ==
    [][absorbedOrder' # absorbedOrder =>
         LET p == absorbedOrder'[Len(absorbedOrder')]
             c == ForwardCell(p)
         IN /\ atoms[c] = Unknown => (atoms' = atoms /\ panic' = "none")
            /\ (atoms[c] = Empty /\ beforeAbsorption[c] = Empty) =>
                  /\ panic' = "none"
                  /\ atoms' = [x \in Cells |->
                                  IF x \in Laterals(p) THEN Empty ELSE atoms[x]]
      ]_vars

\* The absorption pass has met one Absorbed observation whose forward cell is
\* still Unknown, and one whose forward cell an earlier pass had marked and
\* which marked a lateral cell.
C7_Witness ==
    \E i, j \in 1 .. Len(absorbedOrder) :
       /\ atoms[ForwardCell(absorbedOrder[i])] = Unknown
       /\ beforeAbsorption[ForwardCell(absorbedOrder[j])] = Empty
       /\ \E c \in Laterals(absorbedOrder[j]) \cap Cells :
             beforeAbsorption[c] = Unknown /\ atoms[c] = Empty

\* C8: rules 1 and 2 commute.  Whatever the order in which each pass meets
\* the observations, and whichever of the two passes runs first, the grid
\* after both is the one the letter pass followed by the reflection pass
\* yields for the order of iter.
C8_Commutative ==
    /\ panic = "none"
    /\ pc = <<>> =>
          atoms = reflection_is_not_blocked(
                      letter_finds_four_empty_spaces(
                          Outcome(default_grid, "none"), observations, iter),
                      observations, iter).atoms

\* Both passes have run on a letter and a Reflected observation that share
\* their forward cell.
C8_Witness ==
    /\ pc = <<>>
    /\ \E p, q \in Border :
          /\ is_letter(observations[p])
          /\ observations[q] = LASER_REFLECTED
          /\ ForwardCell(p) = ForwardCell(q)
          /\ atoms[ForwardCell(q)] = Empty

Reverse(seq) == [i \in 1 .. Len(seq) |-> seq[Len(seq) + 1 - i]]

\* The grid reached by repeating the absorption pass until nothing changes.
RECURSIVE AbsorptionFixpoint(_, _)
AbsorptionFixpoint(g, obs) ==
    LET r == absorption_with_one_free_field(Outcome(g, "none"), obs, iter) IN
    IF r.atoms = g THEN g ELSE AbsorptionFixpoint(r.atoms, obs)

\* The Absorbed observation at a unlocks the one at b: the forward cell of a
\* is Empty and that of b Unknown when the absorption pass starts, the forward
\* cell of b is a lateral cell of a, and b has a lateral cell to mark.
Unlocks(a, b) ==
    /\ beforeAbsorption[ForwardCell(a)] = Empty
    /\ beforeAbsorption[ForwardCell(b)] = Unknown
    /\ ForwardCell(b) \in Laterals(a)
    /\ \E c \in (Laterals(b) \cap Cells) \ Laterals(a) :
          beforeAbsorption[c] = Unknown

\* C9: rule 3 is one pass and depends on the iteration order.  When the two
\* Absorbed observations of a set are such that one unlocks the other and the
\* pass met the unlocked one first, the grid solve returns differs between the
\* order of iter and its reverse, and the returned grid is not the grid that
\* repeating the absorption pass until nothing changes leads to.
C9_OrderSensitive ==
    (Returned /\ Len(absorbedOrder) = 2
              /\ Unlocks(absorbedOrder[2], absorbedOrder[1])) =>
       /\ solve_as_much_as_you_can(observations, iter).atoms
             # solve_as_much_as_you_can(observations, Reverse(iter)).atoms
       /\ atoms # AbsorptionFixpoint(atoms, observations)

\* solve has returned after its absorption pass met the unlocked observation
\* before the one that unlocks it.
C9_Witness ==
    /\ Returned
    /\ Len(absorbedOrder) = 2
    /\ Unlocks(absorbedOrder[2], absorbedOrder[1])

\* C10: solve writes neither Atom nor Unknown.  For every observation set no
\* panic is raised and every cell of every grid on the way is Unknown or
\* Empty; as only a panic stops a run short, and every step finishes a pass
\* or takes an observation off those the pass has still to meet, solve runs
\* to completion.
C10_NoPanic ==
    /\ [](panic = "none" /\ \A c \in Cells : atoms[c] \in {Unknown, Empty})
    /\ [][\/ Len(pc') < Len(pc)
          \/ /\ pc' = pc
             /\ Pending(Head(pc))' # Pending(Head(pc))
             /\ Pending(Head(pc))' \subseteq Pending(Head(pc))]_vars

\* solve has returned for a set with a letter, a Reflected and an Absorbed
\* observation, the last of which marked a cell.
C10_Witness ==
    /\ Returned
    /\ \E p, q, a \in Border :
          /\ is_letter(observations[p])
          /\ observations[q] = LASER_REFLECTED
          /\ observations[a] = LASER_ABSORBED
          /\ \E c \in Laterals(a) \cap Cells :
                beforeAbsorption[c] = Unknown /\ atoms[c] = Empty

====
